---- MODULE Spec2Model ----
(***************************************************************************)
(* Ledger settlement engine and referral bonus issuer of xpermu, as the    *)
(* PostgreSQL trigger and function bodies of the migrations define them.   *)
(* Money is counted in whole cents (numeric(10,2) scaled by 100).          *)
(*                                                                         *)
(* Spec      every statement (with its triggers) runs as one atomic step.  *)
(* SpecConc  two database sessions run their statements interleaved under  *)
(*           READ COMMITTED: a plain SELECT reads the last committed row   *)
(*           (or the session's own write), an UPDATE takes the row lock,   *)
(*           waits for a concurrent holder to commit and then works on the *)
(*           newest row version.                                           *)
(* SpecBonus the referral bonus issuer alone, calls one at a time.         *)
(* SpecIssue the same under any stored bonus setting (AdminSettings).      *)
(* SpecAdmin the admin's UserEditModal: open, edit, save.                  *)
(* SpecCodes registrations of two sessions, the referral code generator    *)
(*           statement by statement; SpecCodesFair adds fair scheduling.   *)
(* SpecVariants the life of one record under each of the eight settlement  *)
(*           triggers the scripts define; SpecLedger adds the issuer.      *)
(* SpecPair  two waiting records settled one statement after the other.    *)
(* SpecLink  the issuer with referrers linked after registration.          *)
(* SpecApproval the ways a user becomes approved; SpecStale the admin's    *)
(*           form while settlements and bonus issues commit.               *)
(***************************************************************************)
EXTENDS Integers, FiniteSets, Sequences, TLC

VARIABLES
    schema,        \* which consolidated reset script built the database
    users,         \* public.users: the ledger columns and the referral columns
    transactions,  \* public.transactions: the rows, by id (ids are 1, 2, ... in insertion order)
    settled,       \* history: how often the settlement body ran for a record
    grant_calls,   \* history: returned calls of grant_referral_bonus per user
    users0,        \* history: public.users in the initial state
    system_settings, \* public.system_settings: the value of the row 'referral_bonus'
    modal,         \* the admin's open UserEditModal: its user prop, or NoModal
    saves,         \* history: how many UserEditModal forms were submitted
    last,          \* history: the completion request the last step of Spec ran, if it ran one
    sess           \* SpecConc: the open database transaction of each session

vars == <<schema, users, transactions, settled, grant_calls, users0, system_settings, modal, saves, last, sess>>

----------------------------------------------------------------------------
(* Bounds of the model *)

MaxDebt == 2
MaxAmount == 2
MaxTx == 1
MaxSettle == 2
MaxCalls == 2
MaxCode == 3
MaxSaves == 2
MaxForm == 1

NULL == "NULL"

\* The registered users, in registration order: a referrer is registered
\* before the user who enters its code.
UserOrder == <<"u1", "u2">>
Users == {UserOrder[i] : i \in 1..Len(UserOrder)}
RowNumber(u) == CHOOSE i \in 1..Len(UserOrder) : UserOrder[i] = u
Earlier(u) == {UserOrder[j] : j \in {k \in 1..Len(UserOrder) : \E i \in 1..Len(UserOrder) : UserOrder[i] = u /\ k < i}}

TxIds == 1..MaxTx

Sessions == {"s1", "s2"}

\* SpecConc: one record per session.
ConcTxIds == 1..Cardinality(Sessions)

\* SpecVariants, SpecLedger, SpecStale: the one record whose life is followed.
VariantTxIds == {1}

\* amount numeric(10,2) NOT NULL carries no CHECK: zero and negative values
\* are stored as well.
Amounts == {0 - 1} \cup (0..MaxAmount)

transaction_status == {"pending", "completed", "cancelled"}

Schemas == {"part_002", "part_004"}

\* system_settings 'referral_bonus': {"referrer": 5.00, "referee": 2.50}
referrer_bonus == 500
referee_bonus == 250

\* A JSON number, and the SQL NULL that value->>'key' gives for a key that is
\* absent or null (and every key of a row that is absent).
JNum(n) == <<n>>
JNull == <<>>
Settings == [referrer : {JNum(referrer_bonus), JNull}, referee : {JNum(referee_bonus), JNull}]
DefaultSettings == [referrer |-> JNum(referrer_bonus), referee |-> JNum(referee_bonus)]

\* The code space of referral_code.
Codes == 1..MaxCode

user_status == {"pending", "approved", "rejected", "suspended"}

----------------------------------------------------------------------------
(* Pure parts of the function bodies *)

LEAST(a, b) == IF a <= b THEN a ELSE b

\* CONSTRAINT buyer_seller_different CHECK (buyer_id <> seller_id): part of
\* the transactions table of part_002, absent from the table of part_004.
buyer_seller_different(sch, buyer_id, seller_id) ==
    sch = "part_002" => buyer_id # seller_id

\* Mutant: the guard looks at the new status only.
TriggerCondition_NewStatusOnly(TG_OP, OLD_row, NEW_row) ==
    TG_OP = "UPDATE" /\ NEW_row.status = "completed"

\* IF TG_OP = 'UPDATE' AND NEW.status = 'completed' AND OLD.status <> 'completed'
TriggerCondition(TG_OP, OLD_row, NEW_row) ==
    TG_OP = "UPDATE" /\ NEW_row.status = "completed" /\ OLD_row.status # "completed"

\* Mutant: the whole sale amount is taken off the debt, without the cap.
amortization_amount_Uncapped(amount, seller_debt) == amount

\* amortization_amount := LEAST(NEW.amount, seller_debt)
amortization_amount(amount, seller_debt) == LEAST(amount, seller_debt)

\* UPDATE users SET debt_xs = debt_xs - amortization_amount WHERE id = seller
UpdateDebt(row, amort) == [row EXCEPT !.debt_xs = @ - amort]

\* Mutant: the credit replaces the balance.
UpdateBalance_Overwrite(row, remaining) == [row EXCEPT !.balance_xs = remaining]

\* UPDATE users SET balance_xs = balance_xs + remaining_amount WHERE id = seller
UpdateBalance(row, remaining) == [row EXCEPT !.balance_xs = @ + remaining]

\* The whole trigger function, run without interleaving, on the users table us.
handle_seller_on_transaction_complete(us, TG_OP, OLD_row, NEW_row) ==
    IF TriggerCondition(TG_OP, OLD_row, NEW_row)
    THEN LET seller == NEW_row.seller_id
             seller_debt == us[seller].debt_xs
             amort == amortization_amount(NEW_row.amount, seller_debt)
             us1 == IF seller_debt > 0
                    THEN [us EXCEPT ![seller] = UpdateDebt(@, amort)]
                    ELSE us
             remaining_amount == IF seller_debt > 0
                                 THEN NEW_row.amount - amort
                                 ELSE NEW_row.amount
         IN IF remaining_amount > 0
            THEN [us1 EXCEPT ![seller] = UpdateBalance(@, remaining_amount)]
            ELSE us1
    ELSE us

\* Mutant: the paid flag is not looked at.
AlreadyPaid_Unchecked(row) == FALSE

\* IF (SELECT referral_bonus_paid FROM users WHERE id = approved_user_id) THEN RETURN
AlreadyPaid(row) == row.referral_bonus_paid

\* Mutant: the credit is not written.
CreditBonus_Dropped(row, amount) == row

\* UPDATE users SET balance_bonus = balance_bonus + <amount> WHERE id = <user>
CreditBonus(row, amount) == [row EXCEPT !.balance_bonus = @ + amount]

\* Mutant: the flag is not written.
MarkPaid_Dropped(row) == row

\* UPDATE users SET referral_bonus_paid = TRUE WHERE id = approved_user_id
MarkPaid(row) == [row EXCEPT !.referral_bonus_paid = TRUE]

\* Mutant: the statements that ran before the failing one stay in place.
Rollback_KeepPartial(before, partial) == partial

\* balance_bonus is NOT NULL: an UPDATE that would store balance_bonus + NULL
\* raises, the function has no EXCEPTION block, and the transaction of the
\* call is rolled back to the rows it started from.
Rollback(before, partial) == before

\* Mutant: a user without a referrer is marked paid as well.
grant_referral_bonus_FlagAlways(us, approved_user_id) ==
    IF AlreadyPaid(us[approved_user_id])
    THEN us
    ELSE LET referrer_id == us[approved_user_id].referred_by
             us1 == IF referrer_id # NULL
                    THEN [us EXCEPT ![referrer_id] = CreditBonus(@, system_settings.referrer[1])]
                    ELSE us
             us2 == IF referrer_id # NULL
                    THEN [us1 EXCEPT ![approved_user_id] = CreditBonus(@, system_settings.referee[1])]
                    ELSE us1
         IN [us2 EXCEPT ![approved_user_id] = MarkPaid(@)]

\* The whole function grant_referral_bonus, run without interleaving.
grant_referral_bonus(us, approved_user_id) ==
    IF AlreadyPaid(us[approved_user_id])
    THEN us
    ELSE LET referrer_id == us[approved_user_id].referred_by
         IN IF referrer_id # NULL
            THEN LET referrer_bonus_amount == system_settings.referrer
                     referee_bonus_amount == system_settings.referee
                     us1 == [us EXCEPT ![referrer_id] = CreditBonus(@, referrer_bonus_amount[1])]
                     us2 == [us1 EXCEPT ![approved_user_id] = CreditBonus(@, referee_bonus_amount[1])]
                 IN IF referrer_bonus_amount = JNull THEN Rollback(us, us)
                    ELSE IF referee_bonus_amount = JNull THEN Rollback(us, us1)
                    ELSE [us2 EXCEPT ![approved_user_id] = MarkPaid(@)]
            ELSE us

----------------------------------------------------------------------------
(* Initial states *)

\* The last step ran no UPDATE transactions SET status = 'completed'.
NoStatement == [op |-> "none", tx |-> 0, old_status |-> NULL]

\* A session with no open database transaction: no statement pending, no
\* local variable assigned, no row written.
IdleSession ==
    [pc |-> "idle", tx |-> 0, OLD_row |-> NULL, NEW_row |-> NULL, fired |-> FALSE,
     approved_user_id |-> NULL, seller_debt |-> NULL, remaining_amount |-> NULL,
     referrer_id |-> NULL, new_code |-> NULL, written |-> <<>>]

\* The database after the reset script ran and the users registered: balances
\* zero, an approved loan of 0..MaxDebt cents per user, referred_by naming an
\* earlier user or NULL, status 'pending', the referral codes pairwise
\* distinct (referral_code is UNIQUE), no transaction yet.
InitUsers ==
    {us \in [Users -> [debt_xs : 0..MaxDebt, balance_xs : {0}, balance_bonus : {0},
                       referred_by : Users \cup {NULL}, referral_bonus_paid : {FALSE},
                       status : {"pending"}, referral_code : Codes]] :
        \A u \in Users : /\ us[u].referred_by \in Earlier(u) \cup {NULL}
                         /\ us[u].referral_code = RowNumber(u)}

\* No UserEditModal is open.
NoModal == [id |-> NULL, user |-> NULL]

\* The same with no referral link: what the settlement specifications start from.
InitUsersUnreferred == {us \in InitUsers : \A u \in Users : us[u].referred_by = NULL}

Init ==
    /\ schema \in Schemas
    /\ users \in InitUsersUnreferred
    /\ transactions = <<>>
    /\ settled = [t \in TxIds |-> 0]
    /\ grant_calls = [u \in Users |-> 0]
    /\ users0 = users
    /\ system_settings = DefaultSettings
    /\ modal = NoModal
    /\ saves = 0
    /\ last = NoStatement
    /\ sess = [p \in Sessions |-> IdleSession]

----------------------------------------------------------------------------
(* Spec: atomic statements *)

\* INSERT INTO transactions: the next free id, any parties the table accepts,
\* any amount, any status. AFTER UPDATE triggers do not run on INSERT.
InsertTransaction(t, buyer_id, seller_id, amount, status) ==
    /\ t = Len(transactions) + 1
    /\ buyer_seller_different(schema, buyer_id, seller_id)
    /\ transactions' = Append(transactions,
           [buyer_id |-> buyer_id, seller_id |-> seller_id,
            amount |-> amount, status |-> status, completed_at |-> NULL])
    /\ last' = NoStatement
    /\ UNCHANGED <<schema, system_settings, modal, saves, users, settled, grant_calls, users0, sess>>

\* UPDATE transactions SET status = new_status WHERE id = t, with the row
\* trigger on_transaction_completed (AFTER UPDATE ... FOR EACH ROW).
UpdateTransactionStatus(t, new_status) ==
    /\ t \in DOMAIN transactions
    /\ LET OLD_row == transactions[t]
           NEW_row == [OLD_row EXCEPT !.status = new_status]
       IN /\ transactions' = [transactions EXCEPT ![t] = NEW_row]
          /\ users' = handle_seller_on_transaction_complete(users, "UPDATE", OLD_row, NEW_row)
          /\ TriggerCondition("UPDATE", OLD_row, NEW_row) => settled[t] < MaxSettle
          /\ settled' = [settled EXCEPT ![t] =
                 IF TriggerCondition("UPDATE", OLD_row, NEW_row) THEN @ + 1 ELSE @]
    /\ last' = IF new_status = "completed"
               THEN [op |-> "complete", tx |-> t, old_status |-> transactions[t].status]
               ELSE NoStatement
    /\ UNCHANGED <<schema, system_settings, modal, saves, grant_calls, users0, sess>>

\* supabase.rpc('grant_referral_bonus', { approved_user_id })
GrantReferralBonus(u) ==
    /\ grant_calls[u] < MaxCalls
    /\ users' = grant_referral_bonus(users, u)
    /\ grant_calls' = [grant_calls EXCEPT ![u] = @ + 1]
    /\ last' = NoStatement
    /\ UNCHANGED <<schema, system_settings, modal, saves, transactions, settled, users0, sess>>

Next ==
    \/ \E t \in TxIds, b \in Users, s \in Users, a \in Amounts, st \in transaction_status :
           InsertTransaction(t, b, s, a, st)
    \/ \E t \in TxIds, st \in transaction_status : UpdateTransactionStatus(t, st)

Spec == Init /\ [][Next]_vars

\* The referral bonus issuer alone: it reads and writes no column the
\* settlement reads or writes.
NextBonus == \E u \in Users : GrantReferralBonus(u)

InitBonus ==
    /\ schema \in Schemas
    /\ users \in InitUsers
    /\ transactions = <<>>
    /\ settled = [t \in TxIds |-> 0]
    /\ grant_calls = [u \in Users |-> 0]
    /\ users0 = users
    /\ system_settings = DefaultSettings
    /\ modal = NoModal
    /\ saves = 0
    /\ last = NoStatement
    /\ sess = [p \in Sessions |-> IdleSession]

SpecBonus == InitBonus /\ [][NextBonus]_vars

\* AdminSettings.onSubmit: UPDATE system_settings SET value = <form value>
\* WHERE key = 'referral_bonus'. An input left empty is NaN (valueAsNumber)
\* and is stored as JSON null.
AdminSettingsSave(value) ==
    /\ system_settings' = value
    /\ last' = NoStatement
    /\ UNCHANGED <<schema, modal, saves, users, transactions, settled, grant_calls, users0, sess>>

\* The issuer under any stored bonus setting.
NextIssue ==
    \/ \E u \in Users : GrantReferralBonus(u)
    \/ \E value \in Settings : AdminSettingsSave(value)

InitIssue ==
    /\ schema \in Schemas
    /\ users \in InitUsers
    /\ transactions = <<>>
    /\ settled = [t \in TxIds |-> 0]
    /\ grant_calls = [u \in Users |-> 0]
    /\ users0 = users
    /\ system_settings \in Settings
    /\ modal = NoModal
    /\ saves = 0
    /\ last = NoStatement
    /\ sess = [p \in Sessions |-> IdleSession]

SpecIssue == InitIssue /\ [][NextIssue]_vars

\* UPDATE users SET referred_by = referrer_id WHERE id = u AND referred_by IS
\* NULL: a referrer is linked to a registered user (referred_by REFERENCES
\* users(id), writable under "Admins can manage all users").
LinkReferrer(u, referrer_id) ==
    /\ users[u].referred_by = NULL
    /\ users' = [users EXCEPT ![u].referred_by = referrer_id]
    /\ last' = NoStatement
    /\ UNCHANGED <<schema, system_settings, modal, saves, transactions, settled, grant_calls, users0, sess>>

\* The issuer with referrers linked after registration.
NextLink ==
    \/ \E u \in Users : GrantReferralBonus(u)
    \/ \E u \in Users, r \in Users : LinkReferrer(u, r)

SpecLink == InitBonus /\ [][NextLink]_vars

----------------------------------------------------------------------------
(* SpecConc: two sessions, READ COMMITTED, statement by statement *)

\* The rows a session has written and not yet committed; it holds their locks.
Locked(p) == DOMAIN sess[p].written

\* An UPDATE of row u by session p waits while another session holds its lock.
LockFree(p, u) == \A q \in Sessions \ {p} : u \notin Locked(q)

\* The row version session p works on: its own write, else the committed row.
Read(p, u) == IF u \in Locked(p) THEN sess[p].written[u] ELSE users[u]

Write(p, u, row) == [v \in Locked(p) \cup {u} |-> IF v = u THEN row ELSE sess[p].written[v]]

ConcUnchanged == UNCHANGED <<schema, system_settings, modal, saves, users, transactions, settled, grant_calls, users0, last>>

\* UPDATE transactions SET status = 'completed' WHERE id = t: takes the row
\* lock of the record (waiting for a concurrent update of it to commit), then
\* the AFTER UPDATE row trigger starts with OLD and NEW.
BeginCompletion(p, t) ==
    /\ sess[p].pc = "idle"
    /\ t \in DOMAIN transactions
    /\ \A q \in Sessions \ {p} : sess[q].tx # t
    /\ LET OLD_row == transactions[t]
           NEW_row == [OLD_row EXCEPT !.status = "completed"]
           fired == TriggerCondition("UPDATE", OLD_row, NEW_row)
       IN sess' = [sess EXCEPT ![p] = [IdleSession EXCEPT
              !.pc = IF fired THEN "select_debt" ELSE "commit",
              !.tx = t, !.OLD_row = OLD_row, !.NEW_row = NEW_row, !.fired = fired]]
    /\ ConcUnchanged

\* SELECT debt_xs INTO seller_debt FROM users WHERE id = NEW.seller_id;
\* IF seller_debt > 0 THEN ... ELSE remaining_amount := NEW.amount; END IF;
SelectDebt(p) ==
    /\ sess[p].pc = "select_debt"
    /\ LET seller_debt == Read(p, sess[p].NEW_row.seller_id).debt_xs
           amount == sess[p].NEW_row.amount
       IN sess' = [sess EXCEPT ![p] =
              IF seller_debt > 0
              THEN [@ EXCEPT !.seller_debt = seller_debt, !.pc = "update_debt"]
              ELSE [@ EXCEPT !.seller_debt = seller_debt, !.remaining_amount = amount,
                             !.pc = IF amount > 0 THEN "update_balance" ELSE "commit"]]
    /\ ConcUnchanged

\* amortization_amount := LEAST(NEW.amount, seller_debt);
\* UPDATE users SET debt_xs = debt_xs - amortization_amount WHERE id = NEW.seller_id;
\* remaining_amount := NEW.amount - amortization_amount;
UpdateDebtStatement(p) ==
    /\ sess[p].pc = "update_debt"
    /\ LET seller == sess[p].NEW_row.seller_id
           amort == amortization_amount(sess[p].NEW_row.amount, sess[p].seller_debt)
           remaining == sess[p].NEW_row.amount - amort
       IN /\ LockFree(p, seller)
          /\ sess' = [sess EXCEPT ![p] = [@ EXCEPT
                 !.written = Write(p, seller, UpdateDebt(Read(p, seller), amort)),
                 !.remaining_amount = remaining,
                 !.pc = IF remaining > 0 THEN "update_balance" ELSE "commit"]]
    /\ ConcUnchanged

\* UPDATE users SET balance_xs = balance_xs + remaining_amount WHERE id = NEW.seller_id;
UpdateBalanceStatement(p) ==
    /\ sess[p].pc = "update_balance"
    /\ LET seller == sess[p].NEW_row.seller_id
       IN /\ LockFree(p, seller)
          /\ sess' = [sess EXCEPT ![p] = [@ EXCEPT
                 !.written = Write(p, seller, UpdateBalance(Read(p, seller), sess[p].remaining_amount)),
                 !.pc = "commit"]]
    /\ ConcUnchanged

\* supabase.rpc('grant_referral_bonus'): the function starts with
\* IF (SELECT referral_bonus_paid FROM users WHERE id = approved_user_id) THEN RETURN;
BeginGrant(p, u) ==
    /\ sess[p].pc = "idle"
    /\ grant_calls[u] < MaxCalls
    /\ sess' = [sess EXCEPT ![p] = [IdleSession EXCEPT
           !.approved_user_id = u,
           !.pc = IF AlreadyPaid(Read(p, u)) THEN "commit" ELSE "select_referrer"]]
    /\ grant_calls' = [grant_calls EXCEPT ![u] = @ + 1]
    /\ UNCHANGED <<schema, system_settings, modal, saves, users, transactions, settled, users0, last>>

\* SELECT referred_by INTO referrer_id FROM users WHERE id = approved_user_id;
\* IF referrer_id IS NOT NULL THEN (read the bonus settings)
SelectReferrer(p) ==
    /\ sess[p].pc = "select_referrer"
    /\ LET referrer_id == Read(p, sess[p].approved_user_id).referred_by
       IN sess' = [sess EXCEPT ![p] = [@ EXCEPT
              !.referrer_id = referrer_id,
              !.pc = IF referrer_id # NULL THEN "credit_referrer" ELSE "commit"]]
    /\ ConcUnchanged

\* UPDATE users SET balance_bonus = balance_bonus + referrer_bonus_amount WHERE id = referrer_id;
CreditReferrer(p) ==
    /\ sess[p].pc = "credit_referrer"
    /\ LET r == sess[p].referrer_id
       IN /\ LockFree(p, r)
          /\ sess' = [sess EXCEPT ![p] = [@ EXCEPT
                 !.written = Write(p, r, CreditBonus(Read(p, r), system_settings.referrer[1])),
                 !.pc = "credit_referee"]]
    /\ ConcUnchanged

\* UPDATE users SET balance_bonus = balance_bonus + referee_bonus_amount WHERE id = approved_user_id;
CreditReferee(p) ==
    /\ sess[p].pc = "credit_referee"
    /\ LET u == sess[p].approved_user_id
       IN /\ LockFree(p, u)
          /\ sess' = [sess EXCEPT ![p] = [@ EXCEPT
                 !.written = Write(p, u, CreditBonus(Read(p, u), system_settings.referee[1])),
                 !.pc = "mark_paid"]]
    /\ ConcUnchanged

\* UPDATE users SET referral_bonus_paid = TRUE WHERE id = approved_user_id;
MarkPaidStatement(p) ==
    /\ sess[p].pc = "mark_paid"
    /\ LET u == sess[p].approved_user_id
       IN /\ LockFree(p, u)
          /\ sess' = [sess EXCEPT ![p] = [@ EXCEPT
                 !.written = Write(p, u, MarkPaid(Read(p, u))),
                 !.pc = "commit"]]
    /\ ConcUnchanged

\* COMMIT: the session's writes become the committed rows, its locks go.
Commit(p) ==
    /\ sess[p].pc = "commit"
    /\ users' = [u \in Users |-> Read(p, u)]
    /\ transactions' = IF sess[p].tx \in DOMAIN transactions
                       THEN [transactions EXCEPT ![sess[p].tx] = sess[p].NEW_row]
                       ELSE transactions
    /\ settled' = IF sess[p].fired
                  THEN [settled EXCEPT ![sess[p].tx] = @ + 1]
                  ELSE settled
    /\ sess' = [sess EXCEPT ![p] = IdleSession]
    /\ UNCHANGED <<schema, system_settings, modal, saves, grant_calls, users0, last>>

NextConc ==
    \/ \E p \in Sessions, t \in ConcTxIds : BeginCompletion(p, t)
    \/ \E p \in Sessions : SelectDebt(p)
    \/ \E p \in Sessions : UpdateDebtStatement(p)
    \/ \E p \in Sessions : UpdateBalanceStatement(p)
    \/ \E p \in Sessions, u \in Users : BeginGrant(p, u)
    \/ \E p \in Sessions : SelectReferrer(p)
    \/ \E p \in Sessions : CreditReferrer(p)
    \/ \E p \in Sessions : CreditReferee(p)
    \/ \E p \in Sessions : MarkPaidStatement(p)
    \/ \E p \in Sessions : Commit(p)

\* Two pending records of positive amount are waiting for their completion.
PendingRows ==
    {r \in [buyer_id : Users, seller_id : Users, amount : 1..MaxAmount, status : {"pending"},
             completed_at : {NULL}] :
        r.buyer_id # r.seller_id}

InitConc ==
    /\ schema = "part_002"
    /\ users \in InitUsers
    /\ transactions \in [ConcTxIds -> PendingRows]
    /\ settled = [t \in ConcTxIds |-> 0]
    /\ grant_calls = [u \in Users |-> 0]
    /\ users0 = users
    /\ system_settings = DefaultSettings
    /\ modal = NoModal
    /\ saves = 0
    /\ last = NoStatement
    /\ sess = [p \in Sessions |-> IdleSession]

SpecConc == InitConc /\ [][NextConc]_vars

\* The two waiting records updated one statement after the other, each
\* statement with its trigger as one step.
NextPair == \E t \in ConcTxIds, st \in transaction_status : UpdateTransactionStatus(t, st)

InitPair ==
    /\ schema \in Schemas
    /\ users \in InitUsersUnreferred
    /\ transactions \in [ConcTxIds -> PendingRows]
    /\ settled = [t \in ConcTxIds |-> 0]
    /\ grant_calls = [u \in Users |-> 0]
    /\ users0 = users
    /\ system_settings = DefaultSettings
    /\ modal = NoModal
    /\ saves = 0
    /\ last = NoStatement
    /\ sess = [p \in Sessions |-> IdleSession]

SpecPair == InitPair /\ [][NextPair]_vars

----------------------------------------------------------------------------
(* SpecAdmin: the admin's user list and UserEditModal *)

\* What the admin may type into a number input of the form.
FormAmounts == 0..MaxForm

\* The values handleSubmit passes to onSubmit: the defaultValues taken from
\* the user prop, each field kept or overtyped (name and role are not part of
\* the ledger and are left out).
FormData(user) ==
    [status : user_status,
     balance_xs : {user.balance_xs} \cup FormAmounts,
     balance_bonus : {user.balance_bonus} \cup FormAmounts,
     debt_xs : {user.debt_xs} \cup FormAmounts]

\* supabase.from('users').update({ ...data, balance_xs: Number(data.balance_xs),
\*   balance_bonus: Number(data.balance_bonus), debt_xs: Number(data.debt_xs) })
UpdateUser(row, data) ==
    [row EXCEPT !.status = data.status, !.balance_xs = data.balance_xs,
                !.balance_bonus = data.balance_bonus, !.debt_xs = data.debt_xs]

\* AdminUsers.handleEdit: the row is fetched and the modal opens on it.
handleEdit(u) ==
    /\ modal.id = NULL
    /\ saves < MaxSaves
    /\ modal' = [id |-> u, user |-> users[u]]
    /\ last' = NoStatement
    /\ UNCHANGED <<schema, system_settings, saves, users, transactions, settled, grant_calls, users0, sess>>

\* UserEditModal.onSubmit: the update of the row, then the rpc
\* grant_referral_bonus if the status changed to approved (an rpc error is
\* only logged), then onUserUpdate closes the modal.
onSubmit(data) ==
    /\ modal.id # NULL
    /\ LET statusChangedToApproved == data.status = "approved" /\ modal.user.status # "approved"
           updated == [users EXCEPT ![modal.id] = UpdateUser(@, data)]
       IN /\ users' = IF statusChangedToApproved
                       THEN grant_referral_bonus(updated, modal.id)
                       ELSE updated
          /\ grant_calls' = IF statusChangedToApproved
                             THEN [grant_calls EXCEPT ![modal.id] = @ + 1]
                             ELSE grant_calls
    /\ saves' = saves + 1
    /\ modal' = NoModal
    /\ last' = NoStatement
    /\ UNCHANGED <<schema, system_settings, transactions, settled, users0, sess>>

NextAdmin ==
    \/ \E u \in Users : handleEdit(u)
    \/ \E data \in (IF modal.id = NULL THEN {} ELSE FormData(modal.user)) : onSubmit(data)

InitAdmin ==
    /\ schema = "part_004"
    /\ users \in InitUsers
    /\ transactions = <<>>
    /\ settled = [t \in TxIds |-> 0]
    /\ grant_calls = [u \in Users |-> 0]
    /\ users0 = users
    /\ system_settings = DefaultSettings
    /\ modal = NoModal
    /\ saves = 0
    /\ last = NoStatement
    /\ sess = [p \in Sessions |-> IdleSession]

SpecAdmin == InitAdmin /\ [][NextAdmin]_vars

\* SELECT public.create_admin_user(email): UPDATE users SET role = 'admin',
\* status = 'approved' WHERE id = <the user of that email>. Nothing else runs.
create_admin_user(u) ==
    /\ modal.id = NULL
    /\ users[u].status # "approved"
    /\ users' = [users EXCEPT ![u].status = "approved"]
    /\ last' = NoStatement
    /\ UNCHANGED <<schema, system_settings, modal, saves, transactions, settled, grant_calls, users0, sess>>

\* The ways a user becomes approved, under any stored bonus setting: with an
\* amount missing the rpc of onSubmit fails after the update has committed.
NextApproval ==
    \/ NextAdmin
    \/ \E u \in Users : create_admin_user(u)

InitApproval ==
    /\ schema = "part_002"
    /\ users \in {us \in InitUsers : \A u \in Users : us[u].debt_xs = 0}
    /\ transactions = <<>>
    /\ settled = [t \in TxIds |-> 0]
    /\ grant_calls = [u \in Users |-> 0]
    /\ users0 = users
    /\ system_settings \in Settings
    /\ modal = NoModal
    /\ saves = 0
    /\ last = NoStatement
    /\ sess = [p \in Sessions |-> IdleSession]

SpecApproval == InitApproval /\ [][NextApproval]_vars

\* The admin's form next to the database at work: between handleEdit and
\* onSubmit a waiting record may be settled and a bonus may be issued.
NextStale ==
    \/ NextAdmin
    \/ \E t \in VariantTxIds : UpdateTransactionStatus(t, "completed")
    \/ \E u \in Users : GrantReferralBonus(u)

InitStale ==
    /\ schema = "part_002"
    /\ users \in {us \in InitUsers : \A u \in Users : us[u].debt_xs = 0}
    /\ transactions \in [VariantTxIds -> PendingRows]
    /\ settled = [t \in VariantTxIds |-> 0]
    /\ grant_calls = [u \in Users |-> 0]
    /\ users0 = users
    /\ system_settings = DefaultSettings
    /\ modal = NoModal
    /\ saves = 0
    /\ last = NoStatement
    /\ sess = [p \in Sessions |-> IdleSession]

SpecStale == InitStale /\ [][NextStale]_vars

----------------------------------------------------------------------------
(* SpecCodes: registrations, the code generator statement by statement *)

\* The scripts whose users table fills referral_code on INSERT: part_000 by
\* the BEFORE INSERT trigger generate_referral_code (one draw, no look-up),
\* part_004 by the column default generate_referral_code() (draw and look-up
\* in a loop).
CodeSchemas == {"part_000", "part_004"}

\* The id supabase.auth.signUp gives the user a session registers.
NewUser == [p \in Sessions |-> IF p = "s1" THEN "u3" ELSE "u4"]

\* The referral_code column as committed.
StoredCodes == {users[u].referral_code : u \in DOMAIN users}

\* Mutant: the column is not UNIQUE.
referral_code_unique_Dropped(codes, new_code) == TRUE

\* referral_code TEXT UNIQUE: the index accepts a code no committed row holds.
referral_code_unique(codes, new_code) == new_code \notin codes

\* The row the INSERT of register() builds, with the column defaults.
NewUserRow(referred_by, new_code) ==
    [debt_xs |-> 0, balance_xs |-> 0, balance_bonus |-> 0, referred_by |-> referred_by,
     referral_bonus_paid |-> FALSE, status |-> "pending", referral_code |-> new_code]

CodesUnchanged ==
    UNCHANGED <<schema, system_settings, modal, saves, users, transactions, settled, grant_calls, users0, last>>

\* register(): the referrer named by the referral code of the form is looked
\* up (or none is given), the auth user is created, and the INSERT INTO users
\* starts: the code generator is entered.
BeginRegister(p, referrer_id) ==
    /\ sess[p].pc = "idle"
    /\ NewUser[p] \notin DOMAIN users
    /\ sess' = [sess EXCEPT ![p] = [IdleSession EXCEPT !.pc = "gen_draw", !.referrer_id = referrer_id]]
    /\ CodesUnchanged

\* new_code := <random string>; in part_000 that is the whole generator.
DrawCode(p, c) ==
    /\ sess[p].pc = "gen_draw"
    /\ sess' = [sess EXCEPT ![p] = [@ EXCEPT
           !.new_code = c,
           !.pc = IF schema = "part_000" THEN "insert" ELSE "gen_check"]]
    /\ CodesUnchanged

\* SELECT EXISTS (SELECT 1 FROM users WHERE referral_code = new_code) INTO found;
\* IF NOT found THEN RETURN new_code; END IF; END LOOP;
CheckCode(p) ==
    /\ sess[p].pc = "gen_check"
    /\ LET found == sess[p].new_code \in StoredCodes
       IN sess' = [sess EXCEPT ![p] = [@ EXCEPT !.pc = IF found THEN "gen_draw" ELSE "insert"]]
    /\ CodesUnchanged

\* The row reaches the table and the statement commits, or the UNIQUE index
\* rejects it: register() then logs profileError, deletes the auth user and
\* returns { success: false, error: 'Erro ao criar perfil' }.
InsertUser(p) ==
    /\ sess[p].pc = "insert"
    /\ IF referral_code_unique(StoredCodes, sess[p].new_code)
       THEN /\ users' = [u \in DOMAIN users \cup {NewUser[p]} |->
                            IF u = NewUser[p]
                            THEN NewUserRow(sess[p].referrer_id, sess[p].new_code)
                            ELSE users[u]]
            /\ sess' = [sess EXCEPT ![p] = [@ EXCEPT !.pc = "registered"]]
       ELSE /\ users' = users
            /\ sess' = [sess EXCEPT ![p] = [@ EXCEPT !.pc = "failed"]]
    /\ UNCHANGED <<schema, system_settings, modal, saves, transactions, settled, grant_calls, users0, last>>

NextCodes ==
    \/ \E p \in Sessions, r \in DOMAIN users \cup {NULL} : BeginRegister(p, r)
    \/ \E p \in Sessions, c \in Codes : DrawCode(p, c)
    \/ \E p \in Sessions : CheckCode(p)
    \/ \E p \in Sessions : InsertUser(p)

\* The first users are registered, nobody has a loan or a referrer.
InitCodes ==
    /\ schema \in CodeSchemas
    /\ users \in {us \in InitUsersUnreferred : \A u \in Users : us[u].debt_xs = 0}
    /\ transactions = <<>>
    /\ settled = [t \in TxIds |-> 0]
    /\ grant_calls = [u \in Users |-> 0]
    /\ users0 = users
    /\ system_settings = DefaultSettings
    /\ modal = NoModal
    /\ saves = 0
    /\ last = NoStatement
    /\ sess = [p \in Sessions |-> IdleSession]

SpecCodes == InitCodes /\ [][NextCodes]_vars

\* A running statement goes on, and random() does not avoid a value for ever:
\* every code is drawn again and again while the loop runs.
FairCodes ==
    /\ \A p \in Sessions : WF_vars(CheckCode(p)) /\ WF_vars(InsertUser(p))
    /\ \A p \in Sessions, c \in Codes : SF_vars(DrawCode(p, c))

SpecCodesFair == SpecCodes /\ FairCodes

----------------------------------------------------------------------------
(* SpecVariants: the life of one record under each settlement trigger *)

\* The scripts of the repository that define a settlement trigger on
\* public.transactions, by file (and line of the function where a file holds
\* more than one).
Variants ==
    {"part_000", "20250101000000", "part_002", "part_004", "20250101000007_279",
     "20250101000007_581", "20250101000007_908", "20250720113429"}

GREATEST(a, b) == IF a >= b THEN a ELSE b

\* CONSTRAINT buyer_seller_check CHECK (buyer_id <> seller_id): the table of
\* 20250720113429 only.
buyer_seller_check(sch, buyer_id, seller_id) ==
    sch = "20250720113429" => buyer_id # seller_id

\* CREATE TRIGGER ... AFTER UPDATE / AFTER UPDATE OF status / BEFORE INSERT OR UPDATE
TriggerEvents(sch) ==
    IF sch = "20250101000007_581" THEN {"INSERT", "UPDATE"} ELSE {"UPDATE"}

\* The OLD of an INSERT: there is none.
NoRow == [status |-> NULL]

\* Mutant: every change of status settles.
VariantCondition_AnyChange(sch, TG_OP, OLD_row, NEW_row) == NEW_row.status # OLD_row.status

\* The guard of each trigger function.
VariantCondition(sch, TG_OP, OLD_row, NEW_row) ==
    CASE sch = "20250101000007_581" ->
             NEW_row.status = "completed" /\ (TG_OP = "INSERT" \/ NEW_row.status # OLD_row.status)
      [] sch = "20250101000007_908" ->
             NEW_row.status = "completed" /\ OLD_row.status = "pending"
      [] sch \in {"part_000", "20250101000007_279", "20250720113429"} ->
             NEW_row.status = "completed" /\ OLD_row.status # "completed"
      [] OTHER -> TriggerCondition(TG_OP, OLD_row, NEW_row)

\* Mutant: the buyer is debited on the bonus balance.
DebitBuyer_FromBonus(row, amount) == [row EXCEPT !.balance_bonus = @ - amount]

\* UPDATE users SET balance_xs = balance_xs - NEW.amount WHERE id = NEW.buyer_id
DebitBuyer(row, amount) == [row EXCEPT !.balance_xs = @ - amount]

\* part_000 amortize_loan_on_sale and 20250101000000
\* handle_seller_on_transaction_complete, inside the guard: the debt update,
\* the credit of what is left, then the debit of the buyer.
amortize_loan_on_sale(us, NEW_row) ==
    LET seller == NEW_row.seller_id
        seller_debt == us[seller].debt_xs
        amort == amortization_amount(NEW_row.amount, seller_debt)
        us1 == [us EXCEPT ![seller] = UpdateDebt(@, amort)]
        us2 == IF seller_debt > 0
               THEN IF NEW_row.amount > amort
                    THEN [us1 EXCEPT ![seller] = UpdateBalance(@, NEW_row.amount - amort)]
                    ELSE us1
               ELSE [us EXCEPT ![seller] = UpdateBalance(@, NEW_row.amount)]
    IN [us2 EXCEPT ![NEW_row.buyer_id] = DebitBuyer(@, NEW_row.amount)]

\* UPDATE users SET debt_xs = debt_xs - repayment_amount,
\*   balance_xs = balance_xs + (NEW.amount - repayment_amount) WHERE id = seller
UpdateDebtAndBalance(row, repayment_amount, amount) ==
    [row EXCEPT !.debt_xs = @ - repayment_amount, !.balance_xs = @ + (amount - repayment_amount)]

\* 20250720113429 handle_debt_repayment and the two
\* handle_seller_on_transaction_complete of 20250101000007 (279, 581), inside
\* the guard: one UPDATE of both columns.
handle_debt_repayment(us, NEW_row) ==
    LET seller == NEW_row.seller_id
        seller_debt == us[seller].debt_xs
        repayment_amount == LEAST(NEW_row.amount, seller_debt)
    IN IF seller_debt > 0
       THEN [us EXCEPT ![seller] = UpdateDebtAndBalance(@, repayment_amount, NEW_row.amount)]
       ELSE [us EXCEPT ![seller] = UpdateBalance(@, NEW_row.amount)]

\* 20250101000007 process_transaction_amortization, inside the guard:
\* SET debt_xs = GREATEST(0, debt_xs - NEW.amount),
\*     balance_xs = CASE WHEN debt_xs >= NEW.amount THEN balance_xs
\*                       ELSE balance_xs + (NEW.amount - debt_xs) END
process_transaction_amortization(us, NEW_row) ==
    LET seller == NEW_row.seller_id
        old == us[seller]
    IN [us EXCEPT ![seller] =
           [@ EXCEPT !.debt_xs = GREATEST(0, old.debt_xs - NEW_row.amount),
                     !.balance_xs = IF old.debt_xs >= NEW_row.amount
                                    THEN old.balance_xs
                                    ELSE old.balance_xs + (NEW_row.amount - old.debt_xs)]]

\* The trigger function of script sch on the users table us.
Settlement(sch, us, TG_OP, OLD_row, NEW_row) ==
    IF TG_OP \in TriggerEvents(sch) /\ VariantCondition(sch, TG_OP, OLD_row, NEW_row)
    THEN CASE sch \in {"part_000", "20250101000000"} -> amortize_loan_on_sale(us, NEW_row)
           [] sch \in {"20250101000007_279", "20250101000007_581", "20250720113429"} ->
                  handle_debt_repayment(us, NEW_row)
           [] sch = "20250101000007_908" -> process_transaction_amortization(us, NEW_row)
           [] OTHER -> handle_seller_on_transaction_complete(us, TG_OP, OLD_row, NEW_row)
    ELSE us

\* NEW.completed_at := now(), in the BEFORE trigger of 20250101000007 (581).
SetCompletedAt(sch, fired, NEW_row) ==
    IF fired /\ sch = "20250101000007_581"
    THEN [NEW_row EXCEPT !.completed_at = "now"]
    ELSE NEW_row

VariantsUnchanged == UNCHANGED <<schema, system_settings, modal, saves, grant_calls, users0, sess>>

\* INSERT INTO transactions of the one record, with the row trigger if the
\* script attaches it to INSERT.
VariantInsert(buyer_id, seller_id, amount, status) ==
    /\ transactions = <<>>
    /\ buyer_seller_different(schema, buyer_id, seller_id)
    /\ buyer_seller_check(schema, buyer_id, seller_id)
    /\ LET NEW_row == [buyer_id |-> buyer_id, seller_id |-> seller_id,
                       amount |-> amount, status |-> status, completed_at |-> NULL]
           fired == "INSERT" \in TriggerEvents(schema)
                    /\ VariantCondition(schema, "INSERT", NoRow, NEW_row)
       IN /\ transactions' = <<SetCompletedAt(schema, fired, NEW_row)>>
          /\ users' = Settlement(schema, users, "INSERT", NoRow, NEW_row)
          /\ settled' = [settled EXCEPT ![Len(transactions) + 1] = IF fired THEN @ + 1 ELSE @]
    /\ last' = NoStatement
    /\ VariantsUnchanged

\* UPDATE transactions SET status = new_status WHERE id = t, with the row trigger.
VariantUpdateStatus(t, new_status) ==
    /\ t \in DOMAIN transactions
    /\ LET OLD_row == transactions[t]
           NEW_row == [OLD_row EXCEPT !.status = new_status]
           fired == VariantCondition(schema, "UPDATE", OLD_row, NEW_row)
       IN /\ fired => settled[t] < MaxSettle
          /\ transactions' = [transactions EXCEPT ![t] = SetCompletedAt(schema, fired, NEW_row)]
          /\ users' = Settlement(schema, users, "UPDATE", OLD_row, NEW_row)
          /\ settled' = [settled EXCEPT ![t] = IF fired THEN @ + 1 ELSE @]
    /\ last' = NoStatement
    /\ VariantsUnchanged

NextVariants ==
    \/ \E b \in Users, s \in Users, a \in Amounts, st \in transaction_status :
           VariantInsert(b, s, a, st)
    \/ \E t \in VariantTxIds, st \in transaction_status : VariantUpdateStatus(t, st)

InitVariants ==
    /\ schema \in Variants
    /\ users \in InitUsersUnreferred
    /\ transactions = <<>>
    /\ settled = [t \in VariantTxIds |-> 0]
    /\ grant_calls = [u \in Users |-> 0]
    /\ users0 = users
    /\ system_settings = DefaultSettings
    /\ modal = NoModal
    /\ saves = 0
    /\ last = NoStatement
    /\ sess = [p \in Sessions |-> IdleSession]

SpecVariants == InitVariants /\ [][NextVariants]_vars

\* The settlement triggers and the referral bonus issuer on one database.
NextLedger ==
    \/ NextVariants
    \/ \E u \in Users : GrantReferralBonus(u)

InitLedger ==
    /\ schema \in Variants
    /\ users \in InitUsers
    /\ transactions = <<>>
    /\ settled = [t \in VariantTxIds |-> 0]
    /\ grant_calls = [u \in Users |-> 0]
    /\ users0 = users
    /\ system_settings = DefaultSettings
    /\ modal = NoModal
    /\ saves = 0
    /\ last = NoStatement
    /\ sess = [p \in Sessions |-> IdleSession]

SpecLedger == InitLedger /\ [][NextLedger]_vars

----------------------------------------------------------------------------
(* Claims *)

Min(a, b) == IF a < b THEN a ELSE b
Max(a, b) == IF a > b THEN a ELSE b

Seller(t) == transactions[t].seller_id

\* C1 (Spec): a step that takes a record of amount A > 0 from pending to
\* completed, with the seller's debt at D >= 0, leaves the seller with
\* debt D - min(A, D) and balance raised by max(A - D, 0), in whole cents.
C1_AmortizationExact ==
    [][\A t \in DOMAIN transactions :
          ( /\ transactions[t].status = "pending"
            /\ transactions'[t].status = "completed"
            /\ transactions[t].amount > 0
            /\ users[Seller(t)].debt_xs >= 0 )
          => LET D == users[Seller(t)].debt_xs
                 A == transactions[t].amount
             IN /\ users'[Seller(t)].debt_xs = D - Min(A, D)
                /\ users'[Seller(t)].balance_xs = users[Seller(t)].balance_xs + Max(A - D, 0)
      ]_vars

\* C1 witness: a record was settled once in the tie A = D: the debt is gone
\* and nothing was credited.
C1_Witness ==
    \E t \in DOMAIN transactions :
        /\ settled[t] = 1
        /\ transactions[t].status = "completed"
        /\ transactions[t].amount > 0
        /\ users0[Seller(t)].debt_xs = transactions[t].amount
        /\ users[Seller(t)].debt_xs = 0
        /\ users[Seller(t)].balance_xs = 0

\* C2 (Spec): an update that leaves an already completed record completed
\* (the second completion request) changes no ledger account.
C2_SecondCompletionNoEffect ==
    [][( /\ last'.op = "complete"
         /\ last'.old_status = "completed" )
       => users' = users
      ]_vars

\* C2 witness: the last statement was a completion request on a record that
\* had been settled before, and the record is still settled once.
C2_Witness ==
    /\ last.op = "complete"
    /\ last.old_status = "completed"
    /\ settled[last.tx] = 1
    /\ transactions[last.tx].amount > 0

\* C3 (Spec), as claimed: over any sequence of status updates the settlement
\* body runs at most once per record.
C3_SettledAtMostOnce == \A t \in TxIds : settled[t] <= 1

\* What one paid bonus issuance leaves in a user's bonus balance: the referee
\* bonus for the user's own issuance, one referrer bonus per referred user
\* whose issuance was called.
Called(u) == grant_calls[u] >= 1 /\ users0[u].referred_by # NULL
ExpectedBonus(u) ==
    (IF Called(u) THEN referee_bonus ELSE 0)
    + referrer_bonus * Cardinality({v \in Users : users0[v].referred_by = u /\ Called(v)})

\* C4 (SpecBonus): however often grant_referral_bonus was called for a user
\* with a referrer (N >= 1), the referrer holds exactly one referrer bonus
\* for it, the user exactly one referee bonus, and the user is marked paid.
C4_BonusOnceWhateverN ==
    \A u \in Users :
        /\ users[u].balance_bonus = users0[u].balance_bonus + ExpectedBonus(u)
        /\ Called(u) => users[u].referral_bonus_paid

\* C4 witness: the issuer was called at least twice for a referred user.
C4_Witness ==
    \E u \in Users :
        /\ users[u].referred_by # NULL
        /\ grant_calls[u] >= 2
        /\ users[u].balance_bonus = referee_bonus
        /\ users[users[u].referred_by].balance_bonus = referrer_bonus

\* C5 (SpecConc), as claimed: no interleaving of two calls of
\* grant_referral_bonus pays a bonus twice: a user never holds more than its
\* own referee bonus plus one referrer bonus per user it referred.
C5_NoDoublePayment ==
    \A u \in Users :
        users[u].balance_bonus <=
            (IF users[u].referred_by # NULL THEN referee_bonus ELSE 0)
            + referrer_bonus * Cardinality({v \in Users : users[v].referred_by = u})

\* The ledger columns of user u in the users table us.
Ledger(us, u) == <<us[u].debt_xs, us[u].balance_xs>>

\* Settling record a and then record b, each as one atomic update.
SettleInOrder(us, a, b) ==
    LET pending(r) == [r EXCEPT !.status = "pending"]
        done(r) == [r EXCEPT !.status = "completed"]
        us1 == handle_seller_on_transaction_complete(us, "UPDATE", pending(a), done(a))
    IN handle_seller_on_transaction_complete(us1, "UPDATE", pending(b), done(b))

\* C6 (SpecConc), as claimed: once two records of one seller have both been
\* settled by concurrent sessions, the seller's debt and balance are those of
\* settling the two one after the other.
C6_ConcurrentAsSequential ==
    \A a \in DOMAIN transactions, b \in DOMAIN transactions :
        ( /\ a # b
          /\ Seller(a) = Seller(b)
          /\ settled[a] = 1 /\ settled[b] = 1
          /\ \A p \in Sessions : sess[p].pc = "idle" )
        => \/ Ledger(users, Seller(a)) = Ledger(SettleInOrder(users0, transactions[a], transactions[b]), Seller(a))
           \/ Ledger(users, Seller(a)) = Ledger(SettleInOrder(users0, transactions[b], transactions[a]), Seller(a))

\* C7 (SpecConc), as claimed: in every reachable state every debt is >= 0.
C7_DebtNeverNegative == \A u \in Users : users[u].debt_xs >= 0

\* C8 (Spec), as claimed: no record has its buyer as its seller.
C8_NoSelfDealing ==
    \A t \in DOMAIN transactions : transactions[t].buyer_id # transactions[t].seller_id

\* C9 (Spec), as claimed: a completion request on a record that is not
\* pending changes neither the record nor any ledger account.
C9_CompletionOfNonPendingRejected ==
    [][( /\ last'.op = "complete"
         /\ last'.old_status # "pending" )
       => /\ transactions' = transactions
          /\ users' = users
      ]_vars

RECURSIVE SumAmounts(_)
\* The sum of the amounts of the records of the set T.
SumAmounts(T) ==
    IF T = {} THEN 0
    ELSE LET t == CHOOSE x \in T : TRUE
         IN transactions[t].amount + SumAmounts(T \ {t})

\* What the settlements have done to the account of s since the initial state.
DebtReduction(s) == users0[s].debt_xs - users[s].debt_xs
BalanceCredit(s) == users[s].balance_xs - users0[s].balance_xs

\* C11 (Spec), as claimed: in every committed state, for each seller, the debt
\* reduction plus the balance credit equals the sum of the amounts of the
\* seller's settled records, and a record is completed exactly when its
\* settlement effect is included.
C11_NoPartialSettlement ==
    /\ \A s \in Users :
           DebtReduction(s) + BalanceCredit(s) =
               SumAmounts({t \in DOMAIN transactions : Seller(t) = s /\ settled[t] >= 1})
    /\ \A t \in DOMAIN transactions :
           transactions[t].status = "completed" <=> settled[t] >= 1

\* C12 (SpecBonus): the first call of grant_referral_bonus for a user not yet
\* marked paid who has a referrer adds the referrer bonus (5.00) to the
\* referrer's bonus balance, the referee bonus (2.50) to the user's own, and
\* marks the user paid.
C12_FirstGrantEffect ==
    [][\A u \in Users :
          ( /\ grant_calls'[u] = grant_calls[u] + 1
            /\ ~users[u].referral_bonus_paid
            /\ users[u].referred_by # NULL )
          => LET r == users[u].referred_by
             IN /\ users'[r].balance_bonus = users[r].balance_bonus + 500
                /\ users'[u].balance_bonus = users[u].balance_bonus + 250
                /\ users'[u].referral_bonus_paid
      ]_vars

\* C12 witness: exactly one call was made for a referred user, who is now
\* marked paid, with both credits in place.
C12_Witness ==
    \E u \in Users :
        /\ users0[u].referred_by # NULL
        /\ grant_calls[u] = 1
        /\ users[u].referral_bonus_paid
        /\ users[u].balance_bonus = users0[u].balance_bonus + referee_bonus
        /\ users[users0[u].referred_by].balance_bonus
               = users0[users0[u].referred_by].balance_bonus + referrer_bonus

\* The referred users the flag says were paid.
Paid(u) == users[u].referral_bonus_paid

\* C13 (SpecIssue): in every state a user is marked paid exactly when the
\* referrer credit and the referee credit of that user are in the balances:
\* every bonus balance is the initial one plus one referee bonus if the user
\* is marked paid plus one referrer bonus per referred user marked paid. A
\* call that fails on a missing bonus amount therefore leaves no credit and
\* no flag behind.
C13_BonusAllOrNothing ==
    \A u \in Users :
        /\ users[u].balance_bonus =
               users0[u].balance_bonus
               + (IF Paid(u) THEN referee_bonus ELSE 0)
               + referrer_bonus * Cardinality({v \in Users : users[v].referred_by = u /\ Paid(v)})
        /\ Paid(u) => users[u].referred_by # NULL

\* C13 witness: the issuer was called for a referred user while the referee
\* amount was missing from the setting (the referrer amount present), and the
\* users table is as it was.
C13_Witness ==
    \E u \in Users :
        /\ users[u].referred_by # NULL
        /\ grant_calls[u] >= 1
        /\ system_settings.referrer # JNull
        /\ system_settings.referee = JNull
        /\ ~Paid(u)
        /\ users = users0

\* C14 (SpecCodes), as claimed: the generator hands over a candidate only if
\* no stored row holds it at that moment.
C14_ReturnedCodeWasAbsent ==
    [][\A p \in Sessions :
          (sess[p].pc \in {"gen_draw", "gen_check"} /\ sess'[p].pc = "insert")
          => sess'[p].new_code \notin StoredCodes
      ]_vars

\* C15 (SpecCodes): no two rows of users hold the same referral code, whatever
\* the interleaving of two registrations.
C15_CodesPairwiseDistinct ==
    \A u \in DOMAIN users, v \in DOMAIN users :
        u # v => users[u].referral_code # users[v].referral_code

\* C15 witness: under the generator with look-up, two registrations passed
\* the look-up with the same candidate; one row is stored, the other insert
\* was rejected.
C15_Witness ==
    \E p \in Sessions, q \in Sessions :
        /\ schema = "part_004"
        /\ sess[p].pc = "registered"
        /\ sess[q].pc = "failed"
        /\ sess[q].new_code = sess[p].new_code
        /\ users[NewUser[p]].referral_code = sess[p].new_code
        /\ NewUser[q] \notin DOMAIN users

\* C16 (SpecCodes), as claimed: a registration whose insert lost the race on
\* the UNIQUE index does not end as a failure.
C16_UniqueViolationNotFatal == \A p \in Sessions : sess[p].pc # "failed"

\* C17 (SpecCodesFair), as claimed: every call of the generator ends, with a
\* code or with an error.
C17_GeneratorTerminates ==
    \A p \in Sessions :
        (sess[p].pc = "gen_draw") ~> (sess[p].pc \notin {"gen_draw", "gen_check"})

\* The three ledger fields of a row.
LedgerFields(row) == <<row.balance_xs, row.balance_bonus, row.debt_xs>>

\* C18 (SpecAdmin), as claimed: an admin save changes the ledger fields of no
\* account, apart from what the bonus issuer it calls does to them.
C18_OnlyEngineAndIssuerWrite ==
    [][LET issued == IF grant_calls' # grant_calls
                     THEN grant_referral_bonus(users, modal.id)
                     ELSE users
       IN \A u \in Users : LedgerFields(users'[u]) = LedgerFields(issued[u])
      ]_vars

\* C19 (Spec), as claimed: no record has an amount <= 0, and no settlement
\* raises a debt or lowers a balance.
C19_NoNonPositiveAmount ==
    /\ \A t \in DOMAIN transactions : transactions[t].amount > 0
    /\ \A u \in Users : /\ users[u].debt_xs <= users0[u].debt_xs
                        /\ users[u].balance_xs >= users0[u].balance_xs

\* C20 (Spec), as claimed: a record carries a completed_at exactly when its
\* status is completed.
C20_CompletedAtIffCompleted ==
    \A t \in DOMAIN transactions :
        transactions[t].completed_at # NULL <=> transactions[t].status = "completed"

\* A step that takes record t into status completed, by update or by insert.
BecomesCompleted(t) ==
    /\ t \in DOMAIN transactions'
    /\ transactions'[t].status = "completed"
    /\ t \in DOMAIN transactions => transactions[t].status # "completed"

\* C21 (SpecVariants), as claimed: a step that takes a record into status
\* completed leaves the balance, the debt and the bonus balance of the
\* record's buyer as they were.
C21_BuyerUntouched ==
    [][\A t \in DOMAIN transactions' :
          BecomesCompleted(t)
          => LedgerFields(users'[transactions'[t].buyer_id])
                 = LedgerFields(users[transactions'[t].buyer_id])
      ]_vars

\* The columns the settlement owns, and the column the bonus issuer owns.
SettlementColumns(row) == <<row.balance_xs, row.debt_xs>>
BonusColumn(row) == row.balance_bonus

\* C22 (SpecLedger): a step in which a settlement ran changes no user's
\* bonus balance, and a call of grant_referral_bonus changes no user's
\* balance and no user's debt.
C22_SettlementAndBonusDisjoint ==
    [][/\ settled' # settled
           => \A u \in Users : BonusColumn(users'[u]) = BonusColumn(users[u])
       /\ grant_calls' # grant_calls
           => \A u \in Users : SettlementColumns(users'[u]) = SettlementColumns(users[u])
      ]_vars

\* C22 witness: a record was settled and a bonus was paid, in one database:
\* the referred user holds the referee bonus and some ledger account moved.
C22_Witness ==
    \E u \in Users :
        /\ users[u].referral_bonus_paid
        /\ users[u].balance_bonus = referee_bonus
        /\ \E t \in DOMAIN transactions : settled[t] >= 1 /\ transactions[t].amount > 0
        /\ \E v \in Users : SettlementColumns(users[v]) # SettlementColumns(users0[v])

\* C23 (SpecVariants): an update that takes a record into status cancelled,
\* from pending or from completed, runs no settlement and changes no row of
\* users: nothing is settled and nothing that was settled is taken back.
C23_CancelTouchesNoAccount ==
    [][\A t \in DOMAIN transactions :
          ( /\ transactions[t].status # "cancelled"
            /\ transactions'[t].status = "cancelled" )
          => /\ users' = users
             /\ settled' = settled
      ]_vars

\* C23 witness: under part_002 a record of positive amount was settled once and cancelled
\* afterwards; the seller's accounts still carry the settlement.
C23_Witness ==
    \E t \in DOMAIN transactions :
        /\ schema = "part_002"
        /\ transactions[t].status = "cancelled"
        /\ transactions[t].amount > 0
        /\ transactions[t].buyer_id # Seller(t)
        /\ settled[t] = 1
        /\ DebtReduction(Seller(t)) + BalanceCredit(Seller(t)) = transactions[t].amount

\* C24 (SpecVariants), as claimed: the settlement runs only in an update of a
\* record from a status other than completed to completed, and the insert
\* of a record, completed or not, changes no row of users.
C24_SettlesOnUpdateOnly ==
    [][/\ settled' # settled
           => \E t \in DOMAIN transactions :
                  /\ transactions[t].status # "completed"
                  /\ transactions'[t].status = "completed"
       /\ Len(transactions') > Len(transactions) => users' = users
      ]_vars

\* What a paid issuance for user u adds to the bonus balance of user v.
IssuedTo(us, u, v) ==
    (IF v = u THEN referee_bonus ELSE 0) + (IF v = us[u].referred_by THEN referrer_bonus ELSE 0)

\* C25 (SpecLink): a call of grant_referral_bonus for a user without a
\* referrer changes no row of users (the user stays unpaid), and a call for
\* an unpaid user with a referrer, whether or not calls were made before the
\* referrer was linked, pays both bonuses and marks the user paid; a call
\* for a paid user changes nothing.
C25_NoReferrerNoEffect ==
    [][\A u \in Users :
          grant_calls'[u] = grant_calls[u] + 1
          => IF users[u].referred_by = NULL \/ users[u].referral_bonus_paid
             THEN users' = users
             ELSE /\ users'[u].referral_bonus_paid
                  /\ \A v \in Users :
                         users'[v].balance_bonus = users[v].balance_bonus + IssuedTo(users, u, v)
      ]_vars

\* C25 witness: a user registered without a referrer was the subject of a
\* call, then a referrer was linked, and the second call paid the bonus.
C25_Witness ==
    \E u \in Users :
        /\ users0[u].referred_by = NULL
        /\ users[u].referred_by \notin {NULL, u}
        /\ grant_calls[u] = 2
        /\ users[u].referral_bonus_paid
        /\ users[u].balance_bonus = referee_bonus
        /\ users[users[u].referred_by].balance_bonus >= referrer_bonus

\* C26 (SpecApproval), as claimed: once an approval has been committed and no
\* form is open, an approved user who has a referrer is marked paid.
C26_ApprovedReferredIsPaid ==
    modal.id = NULL
    => \A u \in Users :
           (users[u].status = "approved" /\ users[u].referred_by # NULL)
           => users[u].referral_bonus_paid

\* C27 (SpecPair): once two records of one seller, of amounts A1, A2 > 0,
\* have each been settled once, one after the other in either order, the
\* seller's debt, D >= 0 at the start, is max(D - A1 - A2, 0) and the
\* seller's balance has grown by max(A1 + A2 - D, 0); and settling the two
\* from the initial accounts gives the same accounts in both orders.
C27_OrderIndependent ==
    \A a \in DOMAIN transactions, b \in DOMAIN transactions :
        ( /\ a # b
          /\ Seller(a) = Seller(b)
          /\ settled[a] = 1 /\ settled[b] = 1 )
        => LET s == Seller(a)
               D == users0[s].debt_xs
               A1 == transactions[a].amount
               A2 == transactions[b].amount
           IN /\ users[s].debt_xs = Max(D - A1 - A2, 0)
              /\ users[s].balance_xs = users0[s].balance_xs + Max(A1 + A2 - D, 0)
              /\ Ledger(SettleInOrder(users0, transactions[a], transactions[b]), s)
                     = Ledger(SettleInOrder(users0, transactions[b], transactions[a]), s)

\* C27 witness: the second record of a seller was settled before the first,
\* the first sale smaller than the debt and the two together larger: the
\* debt is gone and the excess is in the balance.
C27_Witness ==
    /\ DOMAIN transactions = ConcTxIds
    /\ Seller(1) = Seller(2)
    /\ settled[1] = 1 /\ settled[2] = 1
    /\ last.op = "complete" /\ last.tx = 1
    /\ transactions[2].amount < users0[Seller(1)].debt_xs
    /\ transactions[1].amount + transactions[2].amount > users0[Seller(1)].debt_xs
    /\ users[Seller(1)].debt_xs = 0
    /\ users[Seller(1)].balance_xs > 0

\* C28 (SpecVariants), as claimed: when an update takes a record of amount
\* A > 0 from pending to completed and the seller's debt is D >= 0, the
\* seller's debt and balance after the step are those every settlement
\* trigger of the repository computes from the same rows.
C28_VariantsAgreeOnSeller ==
    [][\A t \in DOMAIN transactions :
          ( /\ transactions[t].status = "pending"
            /\ transactions'[t].status = "completed"
            /\ transactions[t].amount > 0
            /\ users[Seller(t)].debt_xs >= 0 )
          => \A v \in Variants :
                 Ledger(Settlement(v, users, "UPDATE", transactions[t],
                                   [transactions[t] EXCEPT !.status = "completed"]), Seller(t))
                     = Ledger(users', Seller(t))
      ]_vars

\* The row of the edited user as a save of the form values data would leave
\* it if what was committed to the row since the form was loaded stayed in
\* place: the form value plus the change made in between.
SavedOnTop(row, loaded, data) ==
    [row EXCEPT !.status = data.status,
                !.balance_xs = data.balance_xs + (row.balance_xs - loaded.balance_xs),
                !.balance_bonus = data.balance_bonus + (row.balance_bonus - loaded.balance_bonus),
                !.debt_xs = data.debt_xs + (row.debt_xs - loaded.debt_xs)]

\* C29 (SpecStale), as claimed: a save of the admin's form leaves in the
\* edited user's balances and debt every change committed to them between
\* the loading of the form and the save: the row after the save is, for some
\* values of the form, those values with the changes made in between on top
\* (and the bonus of this save's own issuer call).
C29_SaveKeepsInterimChanges ==
    [][saves' = saves + 1
       => \E data \in FormData(modal.user) :
              LET base == [users EXCEPT ![modal.id] = SavedOnTop(@, modal.user, data)]
              IN users' = IF grant_calls' # grant_calls
                          THEN grant_referral_bonus(base, modal.id)
                          ELSE base
      ]_vars

\* The users who name u as their referrer and are marked paid.
PaidReferees(u) == {v \in Users : users[v].referred_by = u /\ users[v].referral_bonus_paid}

\* C30 (SpecLink): with the bonus setting constant and every bonus balance
\* zero at the start, after any sequence of calls of grant_referral_bonus
\* each user's bonus balance is the referee bonus if the user is marked paid
\* (else 0) plus the referrer bonus times the number of users marked paid
\* who name this user as referrer.
C30_BonusBalanceFormula ==
    \A u \in Users :
        users[u].balance_bonus =
            (IF users[u].referral_bonus_paid THEN referee_bonus ELSE 0)
            + referrer_bonus * Cardinality(PaidReferees(u))

\* C30 witness: each of the two users names the other as referrer and both
\* are marked paid: each holds one referee bonus and one referrer bonus.
C30_Witness ==
    \A u \in Users :
        /\ users[u].referral_bonus_paid
        /\ users[u].referred_by \notin {NULL, u}
        /\ users[u].balance_bonus = referee_bonus + referrer_bonus

====
